---- MODULE Spec2Model ----
(***************************************************************************)
(* Model of the ISA portfolio dashboard's performance service              *)
(* (src/data_module.py): the memoised price fetch get_etf_price, the       *)
(* metrics calculate_mdd and calculate_sharpe_ratio, and the service       *)
(* get_portfolio_performance (fetch loop, outer join, forward fill,        *)
(* dropna, weighted index, metrics).                                       *)
(*                                                                         *)
(* Numbers: prices are positive integers, a weight is an integer number of *)
(* percent (weight 0.5 is 50), and every derived number is an exact        *)
(* rational <<n, d>> in lowest terms with d > 0.  The float NaN that       *)
(* pandas produces for 0/0 (mean of no value, sample deviation of one      *)
(* value) is the pair <<0, 0>>.  Rounding of the floats is modelled where  *)
(* it decides something: at the guard "annual_std == 0" (std_exact below)  *)
(* and in the accumulation of the portfolio index, whose values carry a    *)
(* flag telling whether the double is known to equal the rational.         *)
(***************************************************************************)
EXTENDS Integers, Sequences, FiniteSets, TLC

(***************************************************************************)
(* Bounds of the model.                                                    *)
(***************************************************************************)
\* trading dates of the fetch window are 1..MaxDate
MaxDate == 3
\* closing prices a provider series may hold
PriceVals == {1, 2}
\* a portfolio index handed to the metrics has at most MaxLen points ...
MaxLen == 4
\* ... each one of 1..MaxVal
MaxVal == 4

Dates == 1..MaxDate

(***************************************************************************)
(* Exact rational arithmetic with NaN.                                     *)
(***************************************************************************)
Abs(x) == IF x < 0 THEN 0 - x ELSE x

RECURSIVE GCD(_, _)
GCD(a, b) == IF b = 0 THEN a ELSE GCD(b, a % b)

NaN == <<0, 0>>

IsNaN(x) == x[2] = 0

\* n/d in lowest terms; 0/0 is NaN (no divisor of the program is zero with a
\* non-zero dividend: prices, index values and running peaks are positive)
Rat(n, d) ==
    IF d = 0 THEN NaN
    ELSE LET g == GCD(Abs(n), Abs(d))
             s == IF d < 0 THEN 0 - 1 ELSE 1
         IN  <<(s * n) \div g, (s * d) \div g>>

RInt(k) == <<k, 1>>

\* sums over the least common denominator, products after cancelling across:
\* the same rationals, computed without needless large intermediate values
RAdd(x, y) ==
    IF IsNaN(x) \/ IsNaN(y) THEN NaN
    ELSE LET g == GCD(x[2], y[2])
         IN  Rat(x[1] * (y[2] \div g) + y[1] * (x[2] \div g),
                 (x[2] \div g) * y[2])

RNeg(x) == IF IsNaN(x) THEN NaN ELSE <<0 - x[1], x[2]>>

RSub(x, y) == RAdd(x, RNeg(y))

RMul(x, y) ==
    IF IsNaN(x) \/ IsNaN(y) THEN NaN
    ELSE LET g1 == GCD(Abs(x[1]), y[2])
             g2 == GCD(Abs(y[1]), x[2])
         IN  Rat((x[1] \div g1) * (y[1] \div g2),
                 (x[2] \div g2) * (y[2] \div g1))

\* the reciprocal of 0 is kept as the pair <<1, 0>> only inside RDiv, where
\* 0/0 is NaN
RDiv(x, y) ==
    IF IsNaN(x) \/ IsNaN(y) THEN NaN
    ELSE IF y[1] = 0 THEN NaN
    ELSE RMul(x, IF y[1] < 0 THEN <<0 - y[2], 0 - y[1]>> ELSE <<y[2], y[1]>>)

\* comparisons with NaN are false, as in IEEE arithmetic
RLess(x, y) == ~IsNaN(x) /\ ~IsNaN(y) /\ x[1] * y[2] < y[1] * x[2]

RLeq(x, y) == ~IsNaN(x) /\ ~IsNaN(y) /\ x[1] * y[2] <= y[1] * x[2]

REq(x, y) == ~IsNaN(x) /\ ~IsNaN(y) /\ x = y

\* max and min as pandas computes them on a series without NaN
RMax(x, y) == IF RLess(x, y) THEN y ELSE x

RMin(x, y) == IF RLess(y, x) THEN y ELSE x

\* the sum of the first n values of s
RECURSIVE RSumTo(_, _)
RSumTo(s, n) == IF n = 0 THEN RInt(0) ELSE RAdd(RSumTo(s, n - 1), s[n])

RSum(s) == RSumTo(s, Len(s))

\* Series.mean(): the sum over the count, NaN for an empty series
Mean(s) == RDiv(RSum(s), RInt(Len(s)))

\* the square of Series.std(): sample variance, denominator n - 1, NaN for a
\* single value (0/0)
SampleVar(s) ==
    LET m  == Mean(s)
        sq == [k \in 1..Len(s) |-> RMul(RSub(s[k], m), RSub(s[k], m))]
    IN  RDiv(RSum(sq), RInt(Len(s) - 1))

(***************************************************************************)
(* PerformanceMetrics: calculate_mdd, calculate_sharpe_ratio, pct_change.  *)
(***************************************************************************)
\* the running peak of the first t values
RECURSIVE PeakTo(_, _)
PeakTo(prices, t) ==
    IF t = 1 THEN prices[1] ELSE RMax(PeakTo(prices, t - 1), prices[t])

\* mutant of Cummax: the peak of the whole series at every position
CummaxWholeSeries(prices) ==
    [t \in 1..Len(prices) |-> PeakTo(prices, Len(prices))]

\* prices.expanding().max(): the running peak over positions 1..t
Cummax(prices) == [t \in 1..Len(prices) |-> PeakTo(prices, t)]

\* the least of the first n values of s
RECURSIVE MinTo(_, _)
MinTo(s, n) == IF n = 1 THEN s[1] ELSE RMin(MinTo(s, n - 1), s[n])

\* Series.min() of a non-empty series
SeriesMin(s) == MinTo(s, Len(s))

calculate_mdd(prices) ==
    IF Len(prices) < 2 THEN RInt(0)
    ELSE LET cummax   == Cummax(prices)
             drawdown == [t \in 1..Len(prices) |->
                            RMul(RDiv(RSub(prices[t], cummax[t]), cummax[t]),
                                 RInt(100))]
         IN  SeriesMin(drawdown)

\* the default risk_free_rate of calculate_sharpe_ratio, 0.02 = 1/50
RiskFreeDen == 50
risk_free_rate == Rat(1, RiskFreeDen)

\* trading days per year
TradingDays == 252

\* A Sharpe value is the pair [num, var] standing for num / sqrt(var): the
\* annualised excess return over the root of the annualised variance
\* (std() * sqrt(252) is the root of var * 252).  It is NaN when either part
\* is NaN.  The early "return 0" of the code is SharpeZero.
SharpeZero == [num |-> RInt(0), var |-> RInt(1)]

SharpeIsNaN(s) == IsNaN(s.num) \/ IsNaN(s.var)

\* the value is a rounding residue's quotient
SharpeIsResidue(s) == ~SharpeIsNaN(s) /\ s.var = RInt(0)

SharpeIsZero(s) == ~SharpeIsNaN(s) /\ ~SharpeIsResidue(s) /\ s.num = RInt(0)

\* Rounding.  Returns that are all 0.0 have mean 0.0 and deviation exactly
\* 0.0.  Returns that are equal but not zero (-1/3, -1/3, -1/3) are rounded
\* floats: their mean need not be one of them, and std() then comes out as a
\* residue of the order of 1e-16 instead of 0.0 (it does for the index
\* 27, 18, 12, 8; it does not for 1, 2, 4, whose returns are exact).  Which
\* of the two happens is a fixed property of the float arithmetic that the
\* rationals cannot tell: std_exact holds it, TRUE for "exactly 0.0".
VARIABLE std_exact

AllZero(returns) == \A k \in 1..Len(returns) : returns[k] = RInt(0)

\* the guard of line 64, "annual_std == 0"; it is false for NaN
StdIsZero(returns) ==
    /\ REq(SampleVar(returns), RInt(0))
    /\ (AllZero(returns) \/ std_exact)

\* When the deviation is a rounding residue, var is 0: the value then stands
\* for the excess return over a deviation of the order of 1e-16, a number of
\* the order of 1e16 with the sign of num.
calculate_sharpe_ratio(returns) ==
    IF Len(returns) = 0 THEN SharpeZero
    ELSE LET annual_return == RMul(Mean(returns), RInt(TradingDays))
             annual_var    == RMul(SampleVar(returns), RInt(TradingDays))
         IN  IF StdIsZero(returns) THEN SharpeZero
             ELSE [num |-> RSub(annual_return, risk_free_rate),
                   var |-> annual_var]

\* portfolio_index.pct_change().dropna(): index[t] / index[t-1] - 1, the
\* first (undefined) position dropped
pct_change(index) ==
    [t \in 1..(Len(index) - 1) |->
        RSub(RDiv(index[t + 1], index[t]), RInt(1))]

(***************************************************************************)
(* Frames.  A provider frame (stock.get_market_ohlcv) has a date index, a  *)
(* set of column names and the closing-price column, when it has one.      *)
(***************************************************************************)
SetMin(S) == CHOOSE x \in S : \A y \in S : x <= y

SetMax(S) == CHOOSE x \in S : \A y \in S : y <= x

Range(s) == {s[k] : k \in DOMAIN s}

\* the elements of a set of dates in increasing order
RECURSIVE SortedSeq(_)
SortedSeq(S) ==
    IF S = {} THEN <<>>
    ELSE LET m == SetMin(S) IN <<m>> \o SortedSeq(S \ {m})

\* pd.DataFrame()
EmptyFrame == [index |-> <<>>, columns |-> {}, close |-> <<>>]

\* a frame holding closing prices on the dates S (no row when S is empty)
CloseFrame(S, f) ==
    LET idx == SortedSeq(S)
    IN  [index |-> idx, columns |-> {"open", "close"},
         close |-> [k \in 1..Len(idx) |-> f[idx[k]]]]

\* a frame with rows but no closing-price column
NoCloseFrame == [index |-> <<1>>, columns |-> {"open"}, close |-> <<>>]

Frames ==
    UNION {{CloseFrame(S, f) : f \in [S -> PriceVals]} : S \in SUBSET Dates}
    \cup {NoCloseFrame}

FrameEmpty(df) == Len(df.index) = 0 \/ df.columns = {}

\* what the provider does when asked for a ticker: it raises, or returns a
\* frame
Raise == [raises |-> TRUE, frame |-> EmptyFrame]

Responses == {Raise} \cup {[raises |-> FALSE, frame |-> f] : f \in Frames}

(***************************************************************************)
(* price_df: a date index, the column names in insertion order and one     *)
(* column of cells per name; a cell is <<v>>, or <<>> when missing.        *)
(***************************************************************************)
EmptyPriceDf == [index |-> <<>>, columns |-> <<>>, data |-> <<>>]

PriceDfEmpty(df) == Len(df.index) = 0 \/ Len(df.columns) = 0

\* a column moved onto another index: missing where the date is not its own
Reindex(index, col, newindex) ==
    [k \in 1..Len(newindex) |->
        IF \E j \in 1..Len(index) : index[j] = newindex[k]
        THEN col[CHOOSE j \in 1..Len(index) : index[j] = newindex[k]]
        ELSE <<>>]

CloseCells(df) == [k \in 1..Len(df.close) |-> <<df.close[k]>>]

\* price_df[etf_name] = df['close'] on the frame without rows or columns:
\* the frame takes the series' index
SetFirstColumn(price_df, etf_name, df) ==
    [index   |-> df.index,
     columns |-> Append(price_df.columns, etf_name),
     data    |-> Append([c \in 1..Len(price_df.columns) |->
                            Reindex(price_df.index, price_df.data[c], df.index)],
                        CloseCells(df))]

\* price_df.join(df['close'].rename(etf_name), how='outer'): the sorted
\* union of both indexes
JoinOuter(price_df, etf_name, df) ==
    LET idx == SortedSeq(Range(price_df.index) \cup Range(df.index))
    IN  [index   |-> idx,
         columns |-> Append(price_df.columns, etf_name),
         data    |-> Append([c \in 1..Len(price_df.columns) |->
                                Reindex(price_df.index, price_df.data[c], idx)],
                            Reindex(df.index, CloseCells(df), idx))]

\* mutant of FfillColumn: nothing is filled
FfillColumnNothing(col) == col

\* DataFrame.ffill(): a missing cell takes the last present cell above it
FfillColumn(col) ==
    [k \in 1..Len(col) |->
        LET seen == {j \in 1..k : col[j] # <<>>}
        IN  IF seen = {} THEN <<>> ELSE col[SetMax(seen)]]

Ffill(df) ==
    [df EXCEPT !.data = [c \in 1..Len(df.columns) |-> FfillColumn(df.data[c])]]

\* DataFrame.dropna(): the rows without a missing cell, in order
Dropna(df) ==
    LET rows == SelectSeq([k \in 1..Len(df.index) |-> k],
                          LAMBDA k : \A c \in 1..Len(df.columns) :
                                        df.data[c][k] # <<>>)
    IN  [index   |-> [r \in 1..Len(rows) |-> df.index[rows[r]]],
         columns |-> df.columns,
         data    |-> [c \in 1..Len(df.columns) |->
                        [r \in 1..Len(rows) |-> df.data[c][rows[r]]]]]

(***************************************************************************)
(* Configuration: PORTFOLIO_CONFIG, name -> {target_sharpe, etfs}, etfs in *)
(* the order of the configuration file.  A weight is in percent.           *)
(***************************************************************************)
Tickers == {"T1", "T2"}

Etf(name, ticker, weight) == [name |-> name, ticker |-> ticker, weight |-> weight]

PORTFOLIO_CONFIG ==
    [Growth  |-> [target_sharpe |-> RInt(1),
                  etfs |-> <<Etf("A", "T1", 50), Etf("B", "T2", 50)>>],
     Neutral |-> [target_sharpe |-> RInt(1),
                  etfs |-> <<Etf("Z", "T2", 0), Etf("B", "T2", 40),
                             Etf("A", "T1", 30)>>],
     Cash    |-> [target_sharpe |-> RInt(0),
                  etfs |-> <<Etf("A", "T1", 0), Etf("B", "T2", 0 - 10)>>]]

\* the names a caller may pass: the configured ones and one that is not
PortfolioNames == DOMAIN PORTFOLIO_CONFIG \cup {"Unknown"}

\* weight as a number: percent / 100
WeightPercent == 100
WeightOf(etfs, etf_name) ==
    Rat(etfs[CHOOSE j \in 1..Len(etfs) : etfs[j].name = etf_name].weight,
        WeightPercent)

(***************************************************************************)
(* Doubles.  Every number of the index computation is far inside the range *)
(* of 53-bit mantissas, so a double holds a rational exactly when the      *)
(* rational's denominator is a power of two, and an IEEE operation on      *)
(* exact operands whose rational result is such a number gives it exactly. *)
(* A float is [v, exact]: v is the rational the computation stands for;    *)
(* exact = TRUE says the double is v; exact = FALSE says the double is v   *)
(* up to a rounding residue which the rationals cannot tell and which may  *)
(* or may not be zero (weights 0.4 and 0.3 give 70.0, weights 0.58, 0.29   *)
(* and 0.13 give 99.99999999999999).                                       *)
(***************************************************************************)
RECURSIVE IsPowerOfTwo(_)
IsPowerOfTwo(d) ==
    IF d = 1 THEN TRUE
    ELSE IF d < 1 \/ d % 2 # 0 THEN FALSE
    ELSE IsPowerOfTwo(d \div 2)

Representable(x) == ~IsNaN(x) /\ IsPowerOfTwo(x[2])

\* the double nearest to the rational x (a literal, or the quotient of two
\* exact doubles)
Float(x) == [v |-> x, exact |-> Representable(x)]

FMul(a, b) ==
    LET v == RMul(a.v, b.v)
    IN  [v |-> v, exact |-> a.exact /\ b.exact /\ Representable(v)]

FAdd(a, b) ==
    LET v == RAdd(a.v, b.v)
    IN  [v |-> v, exact |-> a.exact /\ b.exact /\ Representable(v)]

\* the rationals a series of floats stands for
Values(series) == [k \in 1..Len(series) |-> series[k].v]

\* mutant of Skipped: only negative weights are skipped
SkippedNegativeOnly(weight) == weight < 0

\* the loop's guard: "if weight <= 0: continue"
Skipped(weight) == weight <= 0

(***************************************************************************)
(* get_portfolio_performance after the fetch loop.                         *)
(***************************************************************************)
\* the base every instrument's first aligned price is rescaled to
NormBase == 100

\* normalized_prices = price_df / price_df.iloc[0] * 100, then
\* portfolio_index += normalized_prices[etf_name] * weight over the columns,
\* starting from 0.0
RECURSIVE WeightedSum(_, _, _, _)
WeightedSum(price_df, etfs, k, c) ==
    IF c = 0 THEN Float(RInt(0))
    ELSE LET normalized ==
                 FMul(Float(RDiv(RInt(price_df.data[c][k][1]),
                                 RInt(price_df.data[c][1][1]))),
                      Float(RInt(NormBase)))
         IN  FAdd(WeightedSum(price_df, etfs, k, c - 1),
                  FMul(normalized,
                       Float(WeightOf(etfs, price_df.columns[c]))))

PortfolioIndex(price_df, etfs) ==
    [k \in 1..Len(price_df.index) |->
        WeightedSum(price_df, etfs, k, Len(price_df.columns))]

\* the empty dict
EmptyResult == <<>>

\* price_df.ffill().dropna()
Align(price_df) == Dropna(Ffill(price_df))

\* lines 121-138: the metrics of a portfolio index and the result
\* dictionary.  The metrics are computed on the rationals the index values
\* stand for (a rounding residue of an index value decides none of their
\* branches: index values that are equal as rationals come here from equal
\* rows of prices or from exact sums, so they are equal doubles); 'prices'
\* keeps the floats.
Assemble(config, price_df, floats, portfolio_index, daily_returns) ==
    LET n == Len(portfolio_index)
    IN  [total_return  |-> RMul(RSub(RDiv(portfolio_index[n], portfolio_index[1]),
                                     RInt(1)), RInt(100)),
         annual_return |-> RMul(RMul(Mean(daily_returns), RInt(TradingDays)),
                                RInt(100)),
         mdd           |-> calculate_mdd(portfolio_index),
         sharpe_ratio  |-> calculate_sharpe_ratio(daily_returns),
         target_sharpe |-> config.target_sharpe,
         prices        |-> [index |-> price_df.index, values |-> floats],
         returns       |-> [index |-> Tail(price_df.index), values |-> daily_returns],
         last_updated  |-> price_df.index[Len(price_df.index)]]

\* lines 112-138 on the aligned frame (each intermediate series is computed
\* once, as a member of a one-element set)
Metrics(config, price_df) ==
    CHOOSE r \in
        UNION {UNION {{Assemble(config, price_df, floats, portfolio_index,
                                daily_returns) :
                          daily_returns \in {pct_change(portfolio_index)}} :
                      portfolio_index \in {Values(floats)}} :
               floats \in {PortfolioIndex(price_df, config.etfs)}} : TRUE

\* lines 103-138: the two emptiness checks around the alignment, then the
\* result
Performance(config, price_df) ==
    IF PriceDfEmpty(price_df) THEN EmptyResult
    ELSE LET aligned == Align(price_df)
         IN  IF PriceDfEmpty(aligned) THEN EmptyResult
             ELSE Metrics(config, aligned)

\* the loop body's use of a fetched frame (lines 96-101)
Merge(price_df, etf_name, df) ==
    IF ~FrameEmpty(df) /\ "close" \in df.columns
    THEN IF PriceDfEmpty(price_df)
         THEN SetFirstColumn(price_df, etf_name, df)
         ELSE JoinOuter(price_df, etf_name, df)
    ELSE price_df

(***************************************************************************)
(* get_etf_price: the body (try / except around the provider call) and the *)
(* st.cache_data(ttl=3600) memo in front of it.  Every call of a run is    *)
(* made on one day with the one start date, so the memo key (ticker,       *)
(* start_date, end_date) varies in the ticker alone.  An entry is <<>>     *)
(* (absent) or <<frame>>; whether a present entry has outlived its ttl is  *)
(* decided at the lookup.  The frame of a failure is stored like any other *)
(* return value.                                                           *)
(***************************************************************************)
\* mutant of FetchBody: no except clause, the provider's exception leaves
\* the function
FetchBodyNoExcept(response) ==
    IF response.raises
    THEN [raised |-> TRUE, df |-> EmptyFrame]
    ELSE [raised |-> FALSE, df |-> response.frame]

\* the function body: the provider's frame, or pd.DataFrame() when the
\* provider raises; raised tells whether an exception leaves the function
FetchBody(response) ==
    IF response.raises
    THEN [raised |-> FALSE, df |-> EmptyFrame]
    ELSE [raised |-> FALSE, df |-> response.frame]

\* the memo's lookup of a key
CacheEntry(memo, ticker) == memo[ticker]

\* the memo serves the call: the body does not run, the provider is not asked
ServedFromMemo(memo, ticker, expired) ==
    CacheEntry(memo, ticker) # <<>> /\ ~expired

\* one call get_etf_price(ticker, ...): [raised, df, hit, failed, memo];
\* response is what the provider answers at the time of the call, should the
\* body run; failed tells that the body ran and the provider raised in it
get_etf_price(memo, response, ticker, expired) ==
    LET entry == CacheEntry(memo, ticker)
    IN  IF ServedFromMemo(memo, ticker, expired)
        THEN [raised |-> FALSE, df |-> entry[1], hit |-> TRUE,
              failed |-> FALSE, memo |-> memo]
        ELSE LET out == FetchBody(response)
             IN  [raised |-> out.raised, df |-> out.df, hit |-> FALSE,
                  failed |-> response.raises,
                  memo   |-> IF out.raised
                             THEN [memo EXCEPT ![ticker] = <<>>]
                             ELSE [memo EXCEPT ![ticker] = <<out.df>>]]

(***************************************************************************)
(* State.                                                                  *)
(***************************************************************************)
VARIABLES
    cache,           \* the memo of get_etf_price
    pc,              \* "idle", or "loop" inside get_portfolio_performance
    portfolio_name,  \* the argument of the current or last call
    i,               \* position of the fetch loop in etfs
    price_df,        \* the frame the loop builds
    attempts,        \* the calls of get_etf_price of this call, in order:
                     \* [ticker, hit, failed, df]
    outcome,         \* "none", "running", "returned" or "raised"
    result,          \* what the last call returned
    m_index,         \* metrics harness: a portfolio index
    m_stage,         \* metrics harness: "input" or "computed"
    m_mdd,           \* metrics harness: calculate_mdd(m_index)
    m_sharpe         \* metrics harness: calculate_sharpe_ratio of its returns

service_vars == <<cache, pc, portfolio_name, i, price_df, attempts,
                  outcome, result>>

metrics_vars == <<m_index, m_stage, m_mdd, m_sharpe>>

vars == <<service_vars, metrics_vars, std_exact>>

NoCache == [t \in Tickers |-> <<>>]

ServiceIdle ==
    /\ cache = NoCache
    /\ pc = "idle"
    /\ portfolio_name = "Unknown"
    /\ i = 0
    /\ price_df = EmptyPriceDf
    /\ attempts = <<>>
    /\ outcome = "none"
    /\ result = EmptyResult

MetricsIdle ==
    /\ m_index = <<>>
    /\ m_stage = "input"
    /\ m_mdd = RInt(0)
    /\ m_sharpe = SharpeZero

(***************************************************************************)
(* The service: one call of get_portfolio_performance is Call, then one    *)
(* LoopStep per configured instrument, then Finish.  The provider is the   *)
(* environment: at every fetch it answers for the time it is asked at,     *)
(* with any of Responses, whatever it answered before.                     *)
(***************************************************************************)
Init ==
    /\ std_exact \in BOOLEAN
    /\ ServiceIdle
    /\ MetricsIdle

\* lines 75-85: an unknown name returns {} at once, a known one enters the
\* loop with an empty frame
Call(name) ==
    /\ pc = "idle"
    /\ portfolio_name' = name
    /\ price_df' = EmptyPriceDf
    /\ attempts' = <<>>
    /\ result' = EmptyResult
    /\ IF name \notin DOMAIN PORTFOLIO_CONFIG
       THEN pc' = "idle" /\ i' = 0 /\ outcome' = "returned"
       ELSE pc' = "loop" /\ i' = 1 /\ outcome' = "running"
    /\ UNCHANGED <<cache, metrics_vars, std_exact>>

\* lines 87-101: one iteration of the loop
LoopStep ==
    /\ pc = "loop"
    /\ i <= Len(PORTFOLIO_CONFIG[portfolio_name].etfs)
    /\ LET etf == PORTFOLIO_CONFIG[portfolio_name].etfs[i]
       IN  IF Skipped(etf.weight)
           THEN /\ i' = i + 1
                /\ UNCHANGED <<cache, pc, price_df, attempts, outcome, result>>
           ELSE \E expired \in BOOLEAN :
                \* when the memo serves the call the provider's answer plays
                \* no part, and one value stands for all of them
                \E response \in IF ServedFromMemo(cache, etf.ticker, expired)
                                 THEN {Raise} ELSE Responses :
                LET got == get_etf_price(cache, response, etf.ticker, expired)
                IN  /\ attempts' = Append(attempts,
                                          [ticker |-> etf.ticker,
                                           hit    |-> got.hit,
                                           failed |-> got.failed,
                                           df     |-> got.df])
                    /\ cache' = got.memo
                    /\ IF got.raised
                       THEN \* an exception leaves get_portfolio_performance
                            /\ pc' = "idle"
                            /\ outcome' = "raised"
                            /\ UNCHANGED <<i, price_df, result>>
                       ELSE /\ price_df' = Merge(price_df, etf.name, got.df)
                            /\ i' = i + 1
                            /\ UNCHANGED <<pc, outcome, result>>
    /\ UNCHANGED <<portfolio_name, metrics_vars, std_exact>>

\* lines 103-138: after the loop
Finish ==
    /\ pc = "loop"
    /\ i > Len(PORTFOLIO_CONFIG[portfolio_name].etfs)
    /\ result' = Performance(PORTFOLIO_CONFIG[portfolio_name], price_df)
    \* line 107 rebinds price_df, when the first emptiness check lets it run
    /\ price_df' = IF PriceDfEmpty(price_df) THEN price_df ELSE Align(price_df)
    /\ outcome' = "returned"
    /\ pc' = "idle"
    /\ UNCHANGED <<cache, portfolio_name, i, attempts, metrics_vars, std_exact>>

Next ==
    \/ \E name \in PortfolioNames : Call(name)
    \/ LoopStep
    \/ Finish

Spec == Init /\ [][Next]_vars

(***************************************************************************)
(* The metrics on their own: a portfolio index of positive values is drawn *)
(* and calculate_mdd and calculate_sharpe_ratio are applied to it as lines *)
(* 122-126 apply them.                                                     *)
(***************************************************************************)
IndexInputs ==
    UNION {[1..n -> {RInt(v) : v \in 1..MaxVal}] : n \in 0..MaxLen}

MetricsInit ==
    /\ std_exact \in BOOLEAN
    /\ ServiceIdle
    /\ m_index \in IndexInputs
    /\ m_stage = "input"
    /\ m_mdd = RInt(0)
    /\ m_sharpe = SharpeZero

ComputeMetrics ==
    /\ m_stage = "input"
    /\ m_mdd' = calculate_mdd(m_index)
    /\ m_sharpe' = calculate_sharpe_ratio(pct_change(m_index))
    /\ m_stage' = "computed"
    /\ UNCHANGED <<m_index, service_vars, std_exact>>

MetricsNext == ComputeMetrics

MetricsSpec == MetricsInit /\ [][MetricsNext]_vars

(***************************************************************************)
(* Properties of the metrics, checked under MetricsSpec.                   *)
(***************************************************************************)
Flat(index) == \A j, k \in 1..Len(index) : index[j] = index[k]

NonDecreasing(index) ==
    \A j, k \in 1..Len(index) : j <= k => RLeq(index[j], index[k])

\* the greatest value at or before position t
PeakBefore(index, t) ==
    CHOOSE x \in {index[j] : j \in 1..t} :
        \A y \in {index[j] : j \in 1..t} : RLeq(y, x)

\* the percentage by which position t lies under that peak
DrawdownAt(index, t) ==
    RMul(RDiv(RSub(index[t], PeakBefore(index, t)), PeakBefore(index, t)),
         RInt(100))

WorstDrawdown(index) ==
    CHOOSE x \in {DrawdownAt(index, t) : t \in 1..Len(index)} :
        \A y \in {DrawdownAt(index, t) : t \in 1..Len(index)} : RLeq(x, y)

\* C3: for every flat portfolio index of n >= 2 points, n = 2 included,
\* calculate_sharpe_ratio of its daily returns is exactly 0, never NaN.
C3_FlatIndexSharpeIsZero ==
    (m_stage = "computed" /\ Len(m_index) >= 2 /\ Flat(m_index))
        => SharpeIsZero(m_sharpe)

\* C6: calculate_mdd of an index of at least 2 positive values is the least,
\* over t, of the percentage by which index[t] lies under the greatest value
\* at or before t; it is <= 0, it is 0 for a non-decreasing index, and it is
\* 0 for fewer than 2 points.
C6_MddIsWorstDeclineFromEarlierPeak ==
    m_stage = "computed" =>
        IF Len(m_index) < 2 THEN m_mdd = RInt(0)
        ELSE /\ m_mdd = WorstDrawdown(m_index)
             /\ RLeq(m_mdd, RInt(0))
             /\ NonDecreasing(m_index) => m_mdd = RInt(0)

\* C6 witness: a low under an earlier peak, followed by a high above that
\* peak, and the result is the decline of that low from the earlier peak.
C6_LowThenHigherHigh ==
    /\ m_stage = "computed"
    /\ \E t, u \in 1..Len(m_index) :
        /\ t < u
        /\ RLess(m_index[t], PeakBefore(m_index, t))
        /\ RLess(PeakBefore(m_index, t), m_index[u])
        /\ m_mdd = DrawdownAt(m_index, t)
        /\ RLess(m_mdd, RInt(0))

(***************************************************************************)
(* Properties of the service, checked under Spec.                          *)
(***************************************************************************)
Known == portfolio_name \in DOMAIN PORTFOLIO_CONFIG

\* the last call was for a configured portfolio and has returned
Returned == pc = "idle" /\ outcome = "returned" /\ Known

Etfs == PORTFOLIO_CONFIG[portfolio_name].etfs

\* the instruments with weight > 0, in configuration order
Selected(etfs) == SelectSeq(etfs, LAMBDA e : e.weight > 0)

Names(etfs) == [k \in 1..Len(etfs) |-> etfs[k].name]

TickersOf(etfs) == [k \in 1..Len(etfs) |-> etfs[k].ticker]

\* the tickers the provider was asked for during this call
provider_calls == TickersOf(SelectSeq(attempts, LAMBDA a : ~a.hit))

\* the k-th fetch of this call ended in a provider failure or gave a frame
\* without rows
EmptyOrFails(k) == attempts[k].failed \/ FrameEmpty(attempts[k].df)

\* the k-th fetch of this call gave closing prices on at least one date
HasSeries(k) ==
    /\ Len(attempts[k].df.index) > 0
    /\ "close" \in attempts[k].df.columns

\* the observations <<date, price>> fetched for the k-th instrument with
\* weight > 0
Obs(k) ==
    IF HasSeries(k)
    THEN {<<attempts[k].df.index[j], attempts[k].df.close[j]>> :
            j \in 1..Len(attempts[k].df.index)}
    ELSE {}

ObsDates(k) == {o[1] : o \in Obs(k)}

UnionDates(n) == UNION {ObsDates(k) : k \in 1..n}

\* the dates of the union at which every one of the n instruments has an
\* observation at or before the date
CompleteDates(n) ==
    {d \in UnionDates(n) : \A k \in 1..n : \E d0 \in ObsDates(k) : d0 <= d}

\* the k-th instrument's last observation at or before d
LastObs(k, d) ==
    LET o == CHOOSE o \in Obs(k) :
                /\ o[1] <= d
                /\ \A o2 \in Obs(k) : o2[1] <= d => o2[1] <= o[1]
    IN  o[2]

\* price_df is the alignment of the series fetched for the instruments etfs
AlignedOver(etfs) ==
    /\ price_df.index = SortedSeq(CompleteDates(Len(etfs)))
    /\ \A k \in 1..(Len(price_df.index) - 1) :
            price_df.index[k] < price_df.index[k + 1]
    /\ \A c \in 1..Len(price_df.columns) :
        \E j \in 1..Len(etfs) :
            /\ etfs[j].name = price_df.columns[c]
            /\ \A k \in 1..Len(price_df.index) :
                price_df.data[c][k] = <<LastObs(j, price_df.index[k])>>
    /\ \A d \in UnionDates(Len(etfs)) \ CompleteDates(Len(etfs)) :
            \A d1 \in CompleteDates(Len(etfs)) : d < d1

\* 100 times the sum of the weights of the instruments etfs
RECURSIVE WeightSumTo(_, _)
WeightSumTo(etfs, k) ==
    IF k = 0 THEN RInt(0)
    ELSE RAdd(WeightSumTo(etfs, k - 1), Rat(etfs[k].weight, WeightPercent))

HundredTimesWeights(etfs) == RMul(RInt(100), WeightSumTo(etfs, Len(etfs)))

\* C1: whenever the aligned table has fewer than 2 rows, the call returns the
\* empty result (no metric computed, no dictionary assembled).
C1_FewerThanTwoRowsEmptyResult ==
    (Returned /\ Len(price_df.index) < 2) => result = EmptyResult

\* C2: if the fetch of at least one instrument with weight > 0 gives an empty
\* series or fails at the provider, the alignment is empty and the call
\* returns the empty result.
C2_OneEmptySeriesEmptyResult ==
    (/\ Returned
     /\ \E k \in 1..Len(Selected(Etfs)) : EmptyOrFails(k))
        => (result = EmptyResult /\ Len(price_df.index) = 0)

\* C4: over the instruments with weight > 0, the retained dates are the dates
\* of the union of all series at which every instrument has an observation at
\* or before the date, in increasing order; each cell is the instrument's last
\* observation at or before the date; the dropped dates are a prefix.
C4_AlignedOverSelected == Returned => AlignedOver(Selected(Etfs))

\* C5: in every non-empty result the first value of 'prices' is 100 times the
\* sum of the weights of all instruments with weight > 0 (the rational the
\* first double stands for is compared, so a rounding residue alone does not
\* refute the statement).
C5_FirstValueAllSelectedWeights ==
    (Returned /\ result # EmptyResult)
        => result.prices.values[1].v = HundredTimesWeights(Selected(Etfs))

\* the case of C7: two instruments with weight > 0, instrument a with exactly
\* one observation, dated before the first of instrument b's several dates
SingleBeforeHistory(a, b) ==
    /\ Len(Selected(Etfs)) = 2
    /\ Cardinality(Obs(a)) = 1
    /\ Cardinality(Obs(b)) >= 2
    /\ \A d \in ObsDates(a) : \A d1 \in ObsDates(b) : d < d1

\* C7: in that case the alignment is empty and the call returns the empty
\* result.
C7_SingleObservationEmptyResult ==
    (Returned /\ (SingleBeforeHistory(1, 2) \/ SingleBeforeHistory(2, 1)))
        => (Len(price_df.index) = 0 /\ result = EmptyResult)

\* C7 amended: in that case the single observation is forward-filled, the
\* alignment retains exactly the dates of the other instrument's history and
\* the call returns a non-empty result.
C7_SingleObservationFilled ==
    \A a, b \in 1..2 :
        (Returned /\ a # b /\ SingleBeforeHistory(a, b)) =>
            /\ price_df.index = SortedSeq(ObsDates(b))
            /\ \A k \in 1..Len(price_df.index) :
                \A o \in Obs(a) : price_df.data[a][k] = <<o[2]>>
            /\ result # EmptyResult
            /\ result.prices.index = price_df.index

\* C7 witness: the case has happened and the call has returned.
C7_SingleBeforeHistoryReturned ==
    /\ Returned
    /\ SingleBeforeHistory(1, 2)
    /\ Len(price_df.index) = 2
    /\ result # EmptyResult

\* the frames the body of get_etf_price can return
BodyFrames == {FetchBody(response).df : response \in Responses}

\* the loop's frame built from the frames dfs of the instruments etfs
RECURSIVE MergeTo(_, _, _)
MergeTo(etfs, dfs, k) ==
    IF k = 0 THEN EmptyPriceDf
    ELSE Merge(MergeTo(etfs, dfs, k - 1), etfs[k].name, dfs[k])

\* the frames of the first k fetches of this call, each fetch that the memo
\* served given any frame the provider's answer at that time can come to
RECURSIVE FreshTo(_)
FreshTo(k) ==
    IF k = 0 THEN {<<>>}
    ELSE {Append(dfs, df) :
            dfs \in FreshTo(k - 1),
            df \in IF attempts[k].hit THEN BodyFrames ELSE {attempts[k].df}}

\* what the call returns on the frames dfs
ResultOf(dfs) ==
    Performance(PORTFOLIO_CONFIG[portfolio_name],
                MergeTo(Selected(Etfs), dfs, Len(dfs)))

\* C8: whatever calls came before and whatever the memo holds, a call returns
\* the value that the configuration and the provider's responses at the times
\* of its fetches determine: whatever the provider answers at the time of a
\* fetch that the memo serves, the result is the one computed from that
\* answer; so two calls for one portfolio with identical provider responses
\* return identical results.
C8_ResultIsFunctionOfInputs ==
    Returned =>
        \A dfs \in FreshTo(Len(attempts)) : result = ResultOf(dfs)

\* C9: if every instrument of a known portfolio has weight <= 0, no instrument
\* is selected, the provider is never called and the call returns the empty
\* result.
C9_NoPositiveWeightNoFetch ==
    (/\ Known
     /\ outcome \in {"running", "returned"}
     /\ \A k \in 1..Len(Etfs) : Etfs[k].weight <= 0)
        => /\ attempts = <<>>
           /\ provider_calls = <<>>
           /\ Len(price_df.columns) = 0
           /\ outcome = "returned" => result = EmptyResult

\* C9 witness: a call for such a portfolio has returned.
C9_AllZeroReturned ==
    /\ Returned
    /\ \A k \in 1..Len(Etfs) : Etfs[k].weight <= 0
    /\ result = EmptyResult

\* C10: during a call on a known portfolio get_etf_price is called exactly
\* once for every instrument with weight > 0, in order, whatever the earlier
\* fetches gave; a provider failure becomes an empty series (the instrument
\* has no column); the call ends with a result or the empty result and never
\* raises.
C10_EveryFetchAttemptedOnce ==
    /\ outcome # "raised"
    /\ (Known /\ pc = "loop") =>
            TickersOf(attempts) = TickersOf(Selected(SubSeq(Etfs, 1, i - 1)))
    /\ Returned =>
        /\ TickersOf(attempts) = TickersOf(Selected(Etfs))
        /\ \A k \in 1..Len(Selected(Etfs)) :
            EmptyOrFails(k) =>
                /\ attempts[k].failed => attempts[k].df = EmptyFrame
                /\ \A c \in 1..Len(price_df.columns) :
                    price_df.columns[c] # Selected(Etfs)[k].name
        /\ (result = EmptyResult \/ "prices" \in DOMAIN result)

\* C10 witness: the provider raised for the first instrument, the second was
\* fetched all the same and the call returned a result.
C10_FetchAfterFailure ==
    /\ Returned
    /\ Len(Selected(Etfs)) = 2
    /\ attempts[1].failed
    /\ TickersOf(attempts) = TickersOf(Selected(Etfs))
    /\ result # EmptyResult

====
